---- MODULE Spec2Model ----
(***************************************************************************)
(* Time/DST engine (shared/src/time_engine.rs) and the rolling Audit       *)
(* Ledger (clocks/06_audit_ledger/src/ledger.rs) of clock-series.          *)
(*                                                                         *)
(* Instants are whole seconds since 2024-01-01T00:00:00Z.  Offsets are in  *)
(* minutes, as TimeData.utc_offset_minutes.  Option<T> is a sequence of    *)
(* length 0 (None) or 1 (Some(x)).                                         *)
(***************************************************************************)
EXTENDS Integers, Sequences, FiniteSets, TLC

\* ------------------------------------------------------------------ bounds
MaxTicks == 4
MaxSwitches == 3
MaxRangeChanges == 1
\* Budgets of a session that starts with a filled buffer.
MaxLongTicks == 2
MaxLongSwitches == 1
\* Budgets of a session whose clock may be set back.
MaxBackTicks == 3
MaxBackSwitches == 1
\* Budgets of a session started in any zone of the database.
MaxWorldTicks == 1
MaxWorldSwitches == 1
MaxToasts == 1
\* Budgets of a session of the topography clock.
MaxConstTicks == 3
MaxConstSwitches == 2

MaxLiveHours == 50
MaxLiveSwitches == 2

MaxDayTicks == 1
MaxDayPicks == 1

\* ---------------------------------------------------------------- Option<T>
None == <<>>
Some(x) == <<x>>
IsSome(o) == Len(o) = 1
Unwrap(o) == o[1]

\* ------------------------------------------------- zone data (chrono-tz)
\* America/New_York in 2024: EST until 2024-03-10T07:00:00Z, EDT until
\* 2024-11-03T06:00:00Z, EST afterwards.
TSpring == 69 * 86400 + 7 * 3600
TFall == 307 * 86400 + 6 * 3600
Zones == {"UTC", "America/New_York"}

\* Further zones of the database in 2024, as <<first, second>> transition
\* instants and <<winter, between, after>> offsets:
\*   Europe/London       GMT, BST from 03-31T01:00Z to 10-27T01:00Z
\*   Australia/Sydney    AEDT until 04-06T16:00Z, AEDT again from 10-05T16:00Z
\*   Australia/Lord_Howe +11:00 until 04-06T15:00Z, again from 10-05T15:30Z
\*   Africa/Casablanca   +01:00, +00:00 from 03-10T02:00Z to 04-14T02:00Z
\*   Asia/Kolkata        +05:30 all year
\*   America/Havana      CST, CDT from 03-10T05:00Z (local 00:00 becomes
\*                       01:00) to 11-03T05:00Z (local 01:00 becomes 00:00)
WorldZones ==
    Zones \cup {"Europe/London", "Australia/Sydney", "Australia/Lord_Howe",
                "Africa/Casablanca", "Asia/Kolkata", "America/Havana"}

ZoneTable(tz) ==
    CASE tz = "America/New_York" ->
            [at |-> <<TSpring, TFall>>, off |-> <<-300, -240, -300>>]
      [] tz = "Europe/London" ->
            [at |-> <<90 * 86400 + 3600, 300 * 86400 + 3600>>,
             off |-> <<0, 60, 0>>]
      [] tz = "Australia/Sydney" ->
            [at |-> <<96 * 86400 + 16 * 3600, 278 * 86400 + 16 * 3600>>,
             off |-> <<660, 600, 660>>]
      [] tz = "Australia/Lord_Howe" ->
            [at |-> <<96 * 86400 + 15 * 3600, 278 * 86400 + 15 * 3600 + 1800>>,
             off |-> <<660, 630, 660>>]
      [] tz = "Africa/Casablanca" ->
            [at |-> <<69 * 86400 + 2 * 3600, 104 * 86400 + 2 * 3600>>,
             off |-> <<60, 0, 60>>]
      [] tz = "Asia/Kolkata" -> [at |-> <<>>, off |-> <<330>>]
      [] tz = "America/Havana" ->
            [at |-> <<69 * 86400 + 5 * 3600, 307 * 86400 + 5 * 3600>>,
             off |-> <<-300, -240, -300>>]
      [] OTHER -> [at |-> <<>>, off |-> <<0>>]

\* The elements of a sequence.
Range(seq) == {seq[i] : i \in 1..Len(seq)}

\* The offset a zone's table gives at instant t.
OffsetIn(z, t) ==
    IF Len(z.at) = 0 THEN z.off[1]
    ELSE IF t < z.at[1] THEN z.off[1]
    ELSE IF t < z.at[2] THEN z.off[2] ELSE z.off[3]

Offset(tz, t) ==
    IF tz = "America/New_York"
    THEN IF t < TSpring THEN -300 ELSE IF t < TFall THEN -240 ELSE -300
    ELSE IF tz = "UTC" THEN 0
    ELSE OffsetIn(ZoneTable(tz), t)

ZoneOffsets(tz) ==
    IF tz = "America/New_York" THEN {-300, -240}
    ELSE IF tz = "UTC" THEN {0}
    ELSE Range(ZoneTable(tz).off)

\* LocalResult::single(): the only candidate, None when there are several or
\* none.
Single(cands) ==
    IF Cardinality(cands) = 1 THEN Some(CHOOSE u \in cands : TRUE) ELSE None

\* tz.with_ymd_and_hms(..).single(): the instant whose local reading is the
\* given wall-clock value, None when the reading is ambiguous or nonexistent.
LocalSingle(tz, local) ==
    Single({u \in {local - 60 * o : o \in ZoneOffsets(tz)} :
               u + 60 * Offset(tz, u) = local})

\* Local 2024-01-15 12:00:00 and 2024-07-15 12:00:00 (seconds of local time
\* since 2024-01-01 00:00:00; 2024 is a leap year).
JanRefLocal == 14 * 86400 + 12 * 3600
JulRefLocal == 196 * 86400 + 12 * 3600

\* Mutant: the smaller of the two.
Max2_Smaller(a, b) == IF a <= b THEN a ELSE b

Max2(a, b) == IF a >= b THEN a ELSE b

\* ------------------------------------------------------ time_engine.rs
\* find_transition_time works on sub-second durations: its instants are in
\* sixteenths of a second, which halving a whole-second 24 h window needs.
Sub == 2 * 2 * 2 * 2

\* The loop of find_transition_time with both ends of its final window.
RECURSIVE FindTransitionLoop(_, _, _, _)
FindTransitionLoop(tz, low, high, start_offset) ==
    IF high - low > 60 * Sub
    THEN LET mid == low + (high - low) \div 2
             mid_offset == Offset(tz, mid \div Sub)
         IN IF mid_offset = start_offset
            THEN FindTransitionLoop(tz, mid, high, start_offset)
            ELSE FindTransitionLoop(tz, low, mid, start_offset)
    ELSE [low |-> low, high |-> high]

\* Mutant: the test on the offset at mid is inverted.
RECURSIVE FindTransitionWindows_Inverted(_, _, _, _)
FindTransitionWindows_Inverted(tz, low, high, start_offset) ==
    IF high - low > 60 * Sub
    THEN LET mid == low + (high - low) \div 2
             mid_offset == Offset(tz, mid \div Sub)
         IN <<[low |-> low, high |-> high]>>
               \o (IF mid_offset # start_offset
                   THEN FindTransitionWindows_Inverted(tz, mid, high, start_offset)
                   ELSE FindTransitionWindows_Inverted(tz, low, mid, start_offset))
    ELSE <<[low |-> low, high |-> high]>>

\* The loop of find_transition_time as the sequence of the windows
\* (low, high) at its head: the first is the window of the call, the last
\* is the one the loop exits with, and each step in between is one halving.
RECURSIVE FindTransitionWindows(_, _, _, _)
FindTransitionWindows(tz, low, high, start_offset) ==
    IF high - low > 60 * Sub
    THEN LET mid == low + (high - low) \div 2
             mid_offset == Offset(tz, mid \div Sub)
         IN <<[low |-> low, high |-> high]>>
               \o (IF mid_offset = start_offset
                   THEN FindTransitionWindows(tz, mid, high, start_offset)
                   ELSE FindTransitionWindows(tz, low, mid, start_offset))
    ELSE <<[low |-> low, high |-> high]>>

\* Mutant: the lower end of the final window is returned.
RECURSIVE FindTransitionTime_ReturnLow(_, _, _, _)
FindTransitionTime_ReturnLow(tz, low, high, start_offset) ==
    IF high - low > 60 * Sub
    THEN LET mid == low + (high - low) \div 2
             mid_offset == Offset(tz, mid \div Sub)
         IN IF mid_offset = start_offset
            THEN FindTransitionTime_ReturnLow(tz, mid, high, start_offset)
            ELSE FindTransitionTime_ReturnLow(tz, low, mid, start_offset)
    ELSE low

\* Mutant: the search stops at a window of two minutes.
RECURSIVE FindTransitionTime_TwoMinutes(_, _, _, _)
FindTransitionTime_TwoMinutes(tz, low, high, start_offset) ==
    IF high - low > 120 * Sub
    THEN LET mid == low + (high - low) \div 2
             mid_offset == Offset(tz, mid \div Sub)
         IN IF mid_offset = start_offset
            THEN FindTransitionTime_TwoMinutes(tz, mid, high, start_offset)
            ELSE FindTransitionTime_TwoMinutes(tz, low, mid, start_offset)
    ELSE high

\* find_transition_time; w is the window (low, high) of the next iteration.
RECURSIVE FindTransitionTime(_, _, _, _)
FindTransitionTime(tz, low, high, start_offset) ==
    IF high - low > 60 * Sub
    THEN LET mid == low + (high - low) \div 2
             mid_offset == Offset(tz, mid \div Sub)
         IN CHOOSE t \in {FindTransitionTime(tz, w[1], w[2], start_offset) :
                              w \in {IF mid_offset = start_offset
                                     THEN <<mid, high>>
                                     ELSE <<low, mid>>}} : TRUE
    ELSE high

DstNone == [kind |-> "None", instant |-> 0, delta_minutes |-> 0]

\* The two reference instants of detect_dst_status, per zone (they depend on
\* the zone and the local year only, and every instant used here is in 2024).
SeasonRefs ==
    [tz \in WorldZones |-> [january |-> LocalSingle(tz, JanRefLocal),
                       july |-> LocalSingle(tz, JulRefLocal)]]

\* Mutant: the reference offsets are not tested for being different.
IsDst_NoEqualTest(tz, january, july, current_offset) ==
    IF IsSome(january) /\ IsSome(july)
    THEN LET jan_offset == Offset(tz, Unwrap(january))
             jul_offset == Offset(tz, Unwrap(july))
         IN current_offset = Max2(jan_offset, jul_offset)
    ELSE FALSE

\* detect_dst_status: is_dst, from the offsets at the two reference instants.
IsDst(tz, january, july, current_offset) ==
    IF IsSome(january) /\ IsSome(july)
    THEN LET jan_offset == Offset(tz, Unwrap(january))
             jul_offset == Offset(tz, Unwrap(july))
         IN IF jan_offset # jul_offset
            THEN current_offset = Max2(jan_offset, jul_offset)
            ELSE FALSE
    ELSE FALSE

\* Mutant: the delta of a past transition is taken the wrong way round.
DstChangeOf_PastDelta(tz, now_utc, current_offset, future, future_offset, past, past_offset) ==
    IF future_offset # current_offset
    THEN [kind |-> "Upcoming",
          instant |-> FindTransitionTime(tz, now_utc * Sub, future * Sub,
                                         current_offset),
          delta_minutes |-> future_offset - current_offset]
    ELSE IF past_offset # current_offset
    THEN [kind |-> "JustOccurred",
          instant |-> FindTransitionTime(tz, past * Sub, now_utc * Sub,
                                         past_offset),
          delta_minutes |-> past_offset - current_offset]
    ELSE DstNone

\* detect_dst_status: the dst_change of its three return statements.
DstChangeOf(tz, now_utc, current_offset, future, future_offset, past, past_offset) ==
    IF future_offset # current_offset
    THEN [kind |-> "Upcoming",
          instant |-> FindTransitionTime(tz, now_utc * Sub, future * Sub,
                                         current_offset),
          delta_minutes |-> future_offset - current_offset]
    ELSE IF past_offset # current_offset
    THEN [kind |-> "JustOccurred",
          instant |-> FindTransitionTime(tz, past * Sub, now_utc * Sub,
                                         past_offset),
          delta_minutes |-> current_offset - past_offset]
    ELSE DstNone

\* Mutant: the look-ahead is 23 hours.
DetectDstStatus_Future23h(tz, now_utc) ==
    [is_dst |-> IsDst(tz, SeasonRefs[tz].january, SeasonRefs[tz].july,
                      Offset(tz, now_utc)),
     dst_change |-> DstChangeOf(tz, now_utc, Offset(tz, now_utc),
                                now_utc + 23 * 3600,
                                Offset(tz, now_utc + 23 * 3600),
                                now_utc - 24 * 3600,
                                Offset(tz, now_utc - 24 * 3600))]

\* detect_dst_status returns (is_dst, dst_change); is_dst is the same value
\* in its three return statements.
DetectDstStatus(tz, now_utc) ==
    [is_dst |-> IsDst(tz, SeasonRefs[tz].january, SeasonRefs[tz].july,
                      Offset(tz, now_utc)),
     dst_change |-> DstChangeOf(tz, now_utc, Offset(tz, now_utc),
                                now_utc + 24 * 3600,
                                Offset(tz, now_utc + 24 * 3600),
                                now_utc - 24 * 3600,
                                Offset(tz, now_utc - 24 * 3600))]

\* Mutant: the arm 1..=12 of the hour12 match stops at 11.
Hour12_NoonMinus12(hour24) ==
    IF hour24 = 0 THEN 12 ELSE IF hour24 < 12 THEN hour24 ELSE hour24 - 12

\* compute_time_data_at: the match that converts the hour to 12-hour format.
Hour12(hour24) ==
    IF hour24 = 0 THEN 12 ELSE IF hour24 <= 12 THEN hour24 ELSE hour24 - 12

\* compute_time_data_at: the TimeData built from the local reading.
TimeDataOf(now_utc, utc_offset_minutes, local, st) ==
    [hour12 |-> Hour12((local \div 3600) % 24),
     hour24 |-> (local \div 3600) % 24,
     minute |-> (local \div 60) % 60,
     second |-> local % 60,
     meridiem |-> IF (local \div 3600) % 24 < 12 THEN "AM" ELSE "PM",
     utc_offset_minutes |-> utc_offset_minutes,
     is_dst |-> st.is_dst,
     dst_change |-> st.dst_change,
     validity |-> "Ok",
     instant_utc |-> now_utc]

ComputeTimeDataAt(tz, now_utc) ==
    TimeDataOf(now_utc, Offset(tz, now_utc),
               now_utc + 60 * Offset(tz, now_utc), DetectDstStatus(tz, now_utc))

\* ------------------------------------------------------- string formatting
Digit(d) == <<"0", "1", "2", "3", "4", "5", "6", "7", "8", "9">>[d + 1]

\* format!("{:02}", n) for 0 <= n <= 99
Pad2(n) == Digit(n \div 10) \o Digit(n % 10)

Abs(n) == IF n < 0 THEN -n ELSE n

FormatUtcOffset(td) ==
    LET sign == IF td.utc_offset_minutes >= 0 THEN "+" ELSE "-"
        abs_minutes == Abs(td.utc_offset_minutes)
    IN "UTC" \o sign \o Pad2(abs_minutes \div 60) \o ":"
           \o Pad2(abs_minutes % 60)

\* format!("{:02}:{:02}:{:02} {}", hour12, minute, second, meridiem)
FormatLocalTimestamp(td) ==
    Pad2(td.hour12) \o ":" \o Pad2(td.minute) \o ":" \o Pad2(td.second)
        \o " " \o td.meridiem

\* format!("{:02}:00", hour)
FormatHourMark(h) == Pad2(h) \o ":00"

\* ------------------------------------------------------------- ledger.rs
TimeRangeFilter == {"Minutes5", "Minutes10", "Minutes30", "Minutes60"}

AsSeconds(range) ==
    CASE range = "Minutes5" -> 5 * 60
      [] range = "Minutes10" -> 10 * 60
      [] range = "Minutes30" -> 30 * 60
      [] range = "Minutes60" -> 60 * 60

\* DstBadge: from/to carry the payload of GapMarker and are empty otherwise.
Badge(kind) == [kind |-> kind, from |-> "", to |-> ""]

FromInstant(instant_utc, tz, is_dst, in_overlap, is_first_pass) ==
    LET time_data == ComputeTimeDataAt(tz, instant_utc)
        dst_badge == IF in_overlap
                     THEN IF is_first_pass THEN Badge("OverlapPass1")
                          ELSE Badge("OverlapPass2")
                     ELSE IF is_dst THEN Badge("Active") ELSE Badge("None")
    IN [instant_utc |-> instant_utc,
        local_timestamp |-> FormatLocalTimestamp(time_data),
        block_id |-> time_data.minute,
        chapter_id |-> time_data.hour24,
        offset_str |-> FormatUtcOffset(time_data),
        dst_badge |-> dst_badge,
        second |-> time_data.second,
        utc_offset_minutes |-> time_data.utc_offset_minutes]

GapMarker(instant_utc, from, to) ==
    [instant_utc |-> instant_utc,
     local_timestamp |-> from \o " -> " \o to,
     block_id |-> 0,
     chapter_id |-> 0,
     offset_str |-> "",
     dst_badge |-> [kind |-> "GapMarker", from |-> from, to |-> to],
     second |-> 0,
     utc_offset_minutes |-> 0]

IsStructuralBadge(b) == b.kind \in {"GapMarker", "OverlapPass1", "OverlapPass2"}

\* Mutant: the badge is recomputed for structural markers too.
RecalculateEntry_AllBadges(entry, tz) ==
    LET time_data == ComputeTimeDataAt(tz, entry.instant_utc)
    IN [entry EXCEPT
          !.local_timestamp = FormatLocalTimestamp(time_data),
          !.block_id = time_data.minute,
          !.chapter_id = time_data.hour24,
          !.offset_str = FormatUtcOffset(time_data),
          !.utc_offset_minutes = time_data.utc_offset_minutes,
          !.dst_badge = IF time_data.is_dst THEN Badge("Active")
                        ELSE Badge("None")]

\* LedgerEntry::recalculate_for_tz
RecalculateEntry(entry, tz) ==
    LET time_data == ComputeTimeDataAt(tz, entry.instant_utc)
    IN [entry EXCEPT
          !.local_timestamp = FormatLocalTimestamp(time_data),
          !.block_id = time_data.minute,
          !.chapter_id = time_data.hour24,
          !.offset_str = FormatUtcOffset(time_data),
          !.utc_offset_minutes = time_data.utc_offset_minutes,
          !.dst_badge = IF ~IsStructuralBadge(@)
                        THEN IF time_data.is_dst THEN Badge("Active")
                             ELSE Badge("None")
                        ELSE @]

OverlapStateDefault ==
    [in_overlap |-> FALSE, overlap_hour |-> None, is_first_pass |-> FALSE,
     pre_fallback_offset |-> None]

\* LedgerState::new(); the view fields (collapsed sets, scroll offset, live
\* flag) do not take part in update, set_time_range or recalculate_for_tz.
LedgerNew ==
    [entries |-> <<>>,
     time_range |-> "Minutes10",
     last_second |-> None,
     last_minute |-> None,
     last_offset |-> None,
     overlap_state |-> OverlapStateDefault]

MaxEntries(s) == AsSeconds(s.time_range)

\* Mutant: an upcoming fall-back enters the first pass without an offset
\* change having been observed.
ClassifyOverlap_NoOffsetTest(os, time_data, last_offset) ==
    LET dc == time_data.dst_change
    IN CASE dc.kind = "JustOccurred" ->
              IF dc.delta_minutes < 0 /\ os.in_overlap /\ os.is_first_pass
              THEN [os EXCEPT !.is_first_pass = FALSE]
              ELSE os
         [] dc.kind = "Upcoming" ->
              IF dc.delta_minutes < 0 /\ IsSome(last_offset)
              THEN [in_overlap |-> TRUE,
                    is_first_pass |-> TRUE,
                    overlap_hour |-> Some(time_data.hour24),
                    pre_fallback_offset |-> Some(Unwrap(last_offset))]
              ELSE os
         [] dc.kind = "None" ->
              IF os.in_overlap /\ IsSome(os.overlap_hour)
                 /\ time_data.hour24 # Unwrap(os.overlap_hour)
                 /\ ~os.is_first_pass
              THEN OverlapStateDefault
              ELSE os

\* The match on time_data.dst_change that opens check_for_dst_transitions.
ClassifyOverlap(os, time_data, last_offset) ==
    LET dc == time_data.dst_change
    IN CASE dc.kind = "JustOccurred" ->
              IF dc.delta_minutes < 0 /\ os.in_overlap /\ os.is_first_pass
              THEN [os EXCEPT !.is_first_pass = FALSE]
              ELSE os
         [] dc.kind = "Upcoming" ->
              IF dc.delta_minutes < 0 /\ IsSome(last_offset)
                 /\ time_data.utc_offset_minutes # Unwrap(last_offset)
              THEN [in_overlap |-> TRUE,
                    is_first_pass |-> TRUE,
                    overlap_hour |-> Some(time_data.hour24),
                    pre_fallback_offset |-> Some(Unwrap(last_offset))]
              ELSE os
         [] dc.kind = "None" ->
              IF os.in_overlap /\ IsSome(os.overlap_hour)
                 /\ time_data.hour24 # Unwrap(os.overlap_hour)
                 /\ ~os.is_first_pass
              THEN OverlapStateDefault
              ELSE os

\* Mutant: entries at any offset but the pre-fallback one are relabeled.
MarkOverlapPass1_OtherOffset(entries, hour, dst_offset) ==
    [i \in 1..Len(entries) |->
        IF entries[i].chapter_id = hour
           /\ entries[i].utc_offset_minutes # dst_offset
           /\ entries[i].dst_badge.kind # "GapMarker"
        THEN [entries[i] EXCEPT !.dst_badge = Badge("OverlapPass1")]
        ELSE entries[i]]

\* Mutant: the offset of the stored entry is not looked at.
MarkOverlapPass1_AnyOffset(entries, hour, dst_offset) ==
    [i \in 1..Len(entries) |->
        IF entries[i].chapter_id = hour
           /\ entries[i].dst_badge.kind # "GapMarker"
        THEN [entries[i] EXCEPT !.dst_badge = Badge("OverlapPass1")]
        ELSE entries[i]]

MarkOverlapPass1(entries, hour, dst_offset) ==
    [i \in 1..Len(entries) |->
        IF entries[i].chapter_id = hour
           /\ entries[i].utc_offset_minutes = dst_offset
           /\ entries[i].dst_badge.kind # "GapMarker"
        THEN [entries[i] EXCEPT !.dst_badge = Badge("OverlapPass1")]
        ELSE entries[i]]

\* The offset-decrease test that closes check_for_dst_transitions.
DetectsFallBack(os, time_data, last_offset) ==
    /\ IsSome(last_offset)
    /\ time_data.utc_offset_minutes < Unwrap(last_offset)
    /\ ~os.in_overlap

\* Mutant: the offset test does not record the pre-fallback offset.
CheckForDstTransitions_NoPreOffset(s, time_data) ==
    LET os == ClassifyOverlap(s.overlap_state, time_data, s.last_offset)
    IN IF DetectsFallBack(os, time_data, s.last_offset)
       THEN [s EXCEPT
               !.overlap_state =
                   [os EXCEPT !.in_overlap = TRUE,
                              !.is_first_pass = FALSE,
                              !.overlap_hour = Some(time_data.hour24)],
               !.entries = MarkOverlapPass1(s.entries, time_data.hour24,
                                            Unwrap(s.last_offset))]
       ELSE [s EXCEPT !.overlap_state = os]

CheckForDstTransitions(s, time_data) ==
    LET os == ClassifyOverlap(s.overlap_state, time_data, s.last_offset)
    IN IF DetectsFallBack(os, time_data, s.last_offset)
       THEN [s EXCEPT
               !.overlap_state =
                   [in_overlap |-> TRUE,
                    is_first_pass |-> FALSE,
                    overlap_hour |-> Some(time_data.hour24),
                    pre_fallback_offset |-> Some(Unwrap(s.last_offset))],
               !.entries = MarkOverlapPass1(s.entries, time_data.hour24,
                                            Unwrap(s.last_offset))]
       ELSE [s EXCEPT !.overlap_state = os]

SpringForwardJustOccurred(time_data) ==
    /\ time_data.dst_change.kind = "JustOccurred"
    /\ time_data.dst_change.delta_minutes > 0

\* Mutant: the marker is pushed to the back of the buffer.
CheckForDstGap_PushBack(s, time_data) ==
    IF SpringForwardJustOccurred(time_data)
    THEN LET skipped_hour == IF time_data.hour24 > 0
                             THEN time_data.hour24 - 1 ELSE 23
             gap_entry == GapMarker(time_data.instant_utc,
                                    FormatHourMark(skipped_hour),
                                    FormatHourMark(time_data.hour24))
         IN [s EXCEPT !.entries = @ \o <<gap_entry>>]
    ELSE s

CheckForDstGap(s, time_data) ==
    IF SpringForwardJustOccurred(time_data)
    THEN LET skipped_hour == IF time_data.hour24 > 0
                             THEN time_data.hour24 - 1 ELSE 23
             gap_entry == GapMarker(time_data.instant_utc,
                                    FormatHourMark(skipped_hour),
                                    FormatHourMark(time_data.hour24))
         IN [s EXCEPT !.entries = <<gap_entry>> \o @]
    ELSE s

\* Mutant: the newest entry is evicted, not the oldest.
RECURSIVE PopWhileOver_FromFront(_, _)
PopWhileOver_FromFront(entries, max) ==
    IF Len(entries) > max
    THEN PopWhileOver_FromFront(SubSeq(entries, 2, Len(entries)), max)
    ELSE entries

RECURSIVE PopWhileOver(_, _)
PopWhileOver(entries, max) ==
    IF Len(entries) > max
    THEN PopWhileOver(SubSeq(entries, 1, Len(entries) - 1), max)
    ELSE entries

\* Mutant: an `if` in place of the `while`: at most one entry is evicted.
PruneEntries_PopOnce(s) ==
    IF Len(s.entries) > MaxEntries(s)
    THEN [s EXCEPT !.entries = SubSeq(@, 1, Len(@) - 1)]
    ELSE s

PruneEntries(s) == [s EXCEPT !.entries = PopWhileOver(@, MaxEntries(s))]

\* Mutant: the tick's minute is compared with the last second.
SameSecond_VsMinute(s, time_data) == s.last_second = Some(time_data.minute)

\* The "second changed" test of update.
SameSecond(s, time_data) == s.last_second = Some(time_data.second)

MinuteBoundary(s, time_data) ==
    IsSome(s.last_minute) /\ time_data.minute # Unwrap(s.last_minute)

\* Mutant: the entry is tagged by the overlap state the call started with.
Update_StaleOverlap(s, time_data, tz) ==
    IF SameSecond(s, time_data)
    THEN [state |-> s, ret |-> FALSE]
    ELSE LET s1 == [s EXCEPT !.last_second = Some(time_data.second)]
             s2 == CheckForDstTransitions(s1, time_data)
             entry == FromInstant(time_data.instant_utc, tz, time_data.is_dst,
                                  s1.overlap_state.in_overlap,
                                  s1.overlap_state.is_first_pass)
             s3 == IF MinuteBoundary(s2, time_data)
                   THEN CheckForDstGap(s2, time_data) ELSE s2
             s4 == [s3 EXCEPT
                      !.last_minute = Some(time_data.minute),
                      !.last_offset = Some(time_data.utc_offset_minutes),
                      !.entries = <<entry>> \o @]
         IN [state |-> PruneEntries(s4), ret |-> TRUE]

\* LedgerState::update; ret is its return value.
Update(s, time_data, tz) ==
    IF SameSecond(s, time_data)
    THEN [state |-> s, ret |-> FALSE]
    ELSE LET s1 == [s EXCEPT !.last_second = Some(time_data.second)]
             s2 == CheckForDstTransitions(s1, time_data)
             entry == FromInstant(time_data.instant_utc, tz, time_data.is_dst,
                                  s2.overlap_state.in_overlap,
                                  s2.overlap_state.is_first_pass)
             s3 == IF MinuteBoundary(s2, time_data)
                   THEN CheckForDstGap(s2, time_data) ELSE s2
             s4 == [s3 EXCEPT
                      !.last_minute = Some(time_data.minute),
                      !.last_offset = Some(time_data.utc_offset_minutes),
                      !.entries = <<entry>> \o @]
         IN [state |-> PruneEntries(s4), ret |-> TRUE]

\* LedgerState::recalculate_for_tz
RecalculateForTz(s, tz) ==
    [s EXCEPT !.entries = [i \in 1..Len(@) |-> RecalculateEntry(@[i], tz)]]

\* LedgerState::set_time_range
SetTimeRangeOf(s, range) == PruneEntries([s EXCEPT !.time_range = range])

\* ------------------------------------------------------------ terrain.rs
\* The f32 quotients position, width and normalized_position are kept as
\* exact fractions num/den; two fractions over the same day length are
\* compared by their numerators.
Frac(num, den) == [num |-> num, den |-> den]

FracLeq(a, b) ==
    IF a.den = b.den THEN a.num <= b.num ELSE a.num * b.den <= b.num * a.den

FracLess(a, b) ==
    IF a.den = b.den THEN a.num < b.num ELSE a.num * b.den < b.num * a.den

\* fault.position + fault.width
FaultEnd(fault) ==
    IF fault.position.den = fault.width.den
    THEN Frac(fault.position.num + fault.width.num, fault.position.den)
    ELSE Frac(fault.position.num * fault.width.den
                 + fault.width.num * fault.position.den,
              fault.position.den * fault.width.den)

\* Mutant: the delta is the earlier offset minus the later one.
DstFaultAt_ReversedDelta(current, prev_offset, next_offset, midnight_utc, day_length_seconds) ==
    LET delta_minutes == prev_offset - next_offset
        transition_ssm == current - midnight_utc
    IN [position |-> Frac(transition_ssm, day_length_seconds),
        width |-> Frac(Abs(delta_minutes) * 60, day_length_seconds),
        delta_minutes |-> delta_minutes,
        label_a |-> IF delta_minutes < 0 THEN Some("(A)") ELSE None,
        label_b |-> IF delta_minutes < 0 THEN Some("(B)") ELSE None]

\* Mutant: the width keeps the sign of the delta.
DstFaultAt_SignedWidth(current, prev_offset, next_offset, midnight_utc, day_length_seconds) ==
    LET delta_minutes == next_offset - prev_offset
        transition_ssm == current - midnight_utc
    IN [position |-> Frac(transition_ssm, day_length_seconds),
        width |-> Frac(delta_minutes * 60, day_length_seconds),
        delta_minutes |-> delta_minutes,
        label_a |-> IF delta_minutes < 0 THEN Some("(A)") ELSE None,
        label_b |-> IF delta_minutes < 0 THEN Some("(B)") ELSE None]

\* The DstFault built inside the loop of detect_dst_faults (offsets are in
\* minutes here, so delta_seconds / 60 is their difference).
DstFaultAt(current, prev_offset, next_offset, midnight_utc, day_length_seconds) ==
    LET delta_minutes == next_offset - prev_offset
        transition_ssm == current - midnight_utc
    IN [position |-> Frac(transition_ssm, day_length_seconds),
        width |-> Frac(Abs(delta_minutes) * 60, day_length_seconds),
        delta_minutes |-> delta_minutes,
        label_a |-> IF delta_minutes < 0 THEN Some("(A)") ELSE None,
        label_b |-> IF delta_minutes < 0 THEN Some("(B)") ELSE None]

RECURSIVE FaultLoop(_, _, _, _, _, _, _)
FaultLoop(tz, current, prev_offset, midnight_utc, next_midnight_utc, day_length_seconds, faults) ==
    IF current < next_midnight_utc
    THEN LET next == current + 3600
         IN IF next > next_midnight_utc
            THEN faults
            ELSE LET next_offset == Offset(tz, next)
                 IN FaultLoop(tz, next, next_offset, midnight_utc,
                              next_midnight_utc, day_length_seconds,
                              IF next_offset # prev_offset
                              THEN Append(faults,
                                          DstFaultAt(current, prev_offset,
                                                     next_offset, midnight_utc,
                                                     day_length_seconds))
                              ELSE faults)
    ELSE faults

\* DayDomain::detect_dst_faults
DetectDstFaults(tz, midnight_utc, next_midnight_utc, day_length_seconds) ==
    FaultLoop(tz, midnight_utc, Offset(tz, midnight_utc), midnight_utc,
              next_midnight_utc, day_length_seconds, <<>>)

\* Local 00:00 of the local day `date` (days since 2024-01-01), 01:00 when
\* 00:00 is ambiguous or does not exist.
LocalMidnight(tz, date) ==
    LET at0 == LocalSingle(tz, date * 86400)
    IN IF IsSome(at0) THEN Unwrap(at0)
       ELSE Unwrap(LocalSingle(tz, date * 86400 + 3600))

\* Mutant: every day is taken to be 24 hours long.
DayDomainCompute_FixedDay(instant, tz) ==
    LET local_date == (instant + 60 * Offset(tz, instant)) \div 86400
        midnight_utc == LocalMidnight(tz, local_date)
        next_midnight_utc == LocalMidnight(tz, local_date + 1)
        day_length_seconds == 86400
        seconds_since_midnight == instant - midnight_utc
    IN [seconds_since_midnight |-> seconds_since_midnight,
        day_length_seconds |-> day_length_seconds,
        normalized_position |->
            Frac(Max2(0, IF seconds_since_midnight <= day_length_seconds
                         THEN seconds_since_midnight
                         ELSE day_length_seconds),
                 day_length_seconds),
        dst_faults |-> DetectDstFaults(tz, midnight_utc, next_midnight_utc,
                                       day_length_seconds),
        midnight_utc |-> midnight_utc,
        next_midnight_utc |-> next_midnight_utc]

\* DayDomain::compute
DayDomainCompute(instant, tz) ==
    LET local_date == (instant + 60 * Offset(tz, instant)) \div 86400
        midnight_utc == LocalMidnight(tz, local_date)
        next_midnight_utc == LocalMidnight(tz, local_date + 1)
        day_length_seconds == next_midnight_utc - midnight_utc
        seconds_since_midnight == instant - midnight_utc
    IN [seconds_since_midnight |-> seconds_since_midnight,
        day_length_seconds |-> day_length_seconds,
        normalized_position |->
            IF day_length_seconds > 0
            THEN Frac(Max2(0, IF seconds_since_midnight <= day_length_seconds
                              THEN seconds_since_midnight
                              ELSE day_length_seconds),
                      day_length_seconds)
            ELSE Frac(0, 1),
        dst_faults |-> DetectDstFaults(tz, midnight_utc, next_midnight_utc,
                                       day_length_seconds),
        midnight_utc |-> midnight_utc,
        next_midnight_utc |-> next_midnight_utc]

\* DayDomain::is_in_gap
IsInGap(domain, p) ==
    \E i \in 1..Len(domain.dst_faults) :
        LET fault == domain.dst_faults[i]
        IN /\ fault.delta_minutes > 0
           /\ FracLeq(fault.position, p)
           /\ FracLess(p, FaultEnd(fault))

\* ------------------------------------------------------------ main.rs
VARIABLES
    ledger,          \* Model.ledger
    selected_zone,   \* Model.selected_zone
    time_data,       \* Model.time_data
    tz_error,        \* Model.tz_error
    last_valid_zone, \* Model.last_valid_zone
    toasts,          \* Model.toasts, the messages shown so far
    day_domain,      \* the DayDomain of the topography clock (03), None here
    now,             \* the instant read by the latest compute_time_data
    monotone,        \* no update call so far carried an earlier instant than
                     \* the call before it
    fed,             \* LedgerState::update has been called with `now`
    ret,             \* return value of the latest LedgerState::update
    prev_os,         \* overlap_state on entry to the latest update call
    steady,          \* every tick so far came one second (or less) after the
                     \* previous one and the zone was never switched
    ticks, switches, range_changes

vars == <<ledger, selected_zone, time_data, tz_error, last_valid_zone, toasts,
          day_domain, now, monotone, fed, ret, prev_os, steady, ticks,
          switches, range_changes>>

\* Seconds between two frames' clock readings: the same second, the next
\* second, a stall of exactly one minute, a stall of an hour and a second.
Steps == {0, 1, 60, 3601}

SteadySteps == {0, 1}

\* Clock readings of a session whose clock may be set back between frames.
BackSteps == {-60, -1, 0, 1, 60}

\* A session of n >= 1 per-second frames in one zone, the first at instant t.
RECURSIVE RunSession(_, _, _, _)
RunSession(s, tz, t, n) ==
    IF n = 1 THEN Update(s, ComputeTimeDataAt(tz, t), tz).state
    ELSE LET h == n \div 2
         IN CHOOSE r \in {RunSession(half, tz, t + h, n - h) :
                             half \in {RunSession(s, tz, t, h)}} : TRUE

StartInstants == {TSpring - 2, TFall - 4}

\* The toast of set_timezone and the toast of try_set_timezone.
StaleToast == "Timezone data may be stale or missing"
InvalidToast(tz_str) == "Invalid timezone: " \o tz_str \o ". Reverting."

InitCommon ==
    /\ time_data = ComputeTimeDataAt(selected_zone, now)
    /\ tz_error = FALSE
    /\ last_valid_zone = selected_zone
    /\ toasts = <<>>
    /\ day_domain = None
    /\ monotone = TRUE
    /\ ret = FALSE
    /\ prev_os = OverlapStateDefault
    /\ steady = TRUE
    /\ ticks = 0
    /\ switches = 0
    /\ range_changes = 0

\* model(): LedgerState::new() followed by set_time_range(configured range).
Init ==
    /\ selected_zone \in Zones
    /\ now \in StartInstants
    /\ fed = FALSE
    /\ ledger = SetTimeRangeOf(LedgerNew, "Minutes10")
    /\ InitCommon

\* Sessions in America/New_York that have run for five minutes: one that
\* ends 58 s after the spring-forward, one that ends 1 s before the fall-back.
LongSessions ==
    {[first |-> TSpring - 241, n |-> 300], [first |-> TFall - 300, n |-> 300]}

InitLong ==
    /\ selected_zone = "America/New_York"
    /\ \E ls \in LongSessions :
          /\ now = ls.first + ls.n - 1
          /\ ledger = RunSession(SetTimeRangeOf(LedgerNew, "Minutes10"),
                                 "America/New_York", ls.first, ls.n)
    /\ fed = TRUE
    /\ InitCommon

\* Clock readings around the transitions of the database: the ends of the
\* 24 h windows of detect_dst_status, the transition itself, the last probe
\* positions of find_transition_time; and the instants 2024-01-01T20:30:00Z,
\* 2024-11-02T09:00:00Z and 2024-11-03T09:00:00Z.
Around == {-86401, -86400, -43, -1, 0, 42, 86399, 86400}

ZoneTransitions(tz) == Range(ZoneTable(tz).at)

WorldInstants ==
    {t + d : t \in UNION {ZoneTransitions(tz) : tz \in WorldZones}, d \in Around}
        \cup {20 * 3600 + 30 * 60, 306 * 86400 + 9 * 3600, 307 * 86400 + 9 * 3600}

InitWorld ==
    /\ selected_zone \in WorldZones
    /\ now \in WorldInstants
    /\ fed = FALSE
    /\ ledger = SetTimeRangeOf(LedgerNew, "Minutes10")
    /\ InitCommon

\* The zones of the database above whose offset never changes, and clock
\* readings that never go back.
ConstZones == {tz \in WorldZones : ZoneTransitions(tz) = {}}

ConstSteps == {0, 1, 60, 3600}

InitConst ==
    /\ selected_zone \in ConstZones
    /\ now \in StartInstants
    /\ fed = FALSE
    /\ ledger = SetTimeRangeOf(LedgerNew, "Minutes10")
    /\ InitCommon

\* A session that starts two hours before the New York fall-back.
LiveSteps == {3601}

LiveHorizon == TFall + MaxLiveHours * 3600

InitLive ==
    /\ selected_zone \in Zones
    /\ now = TFall - 2 * 3601 - 10
    /\ fed = FALSE
    /\ ledger = SetTimeRangeOf(LedgerNew, "Minutes10")
    /\ InitCommon

\* Zone ids as typed into the picker or read from the configuration file.
ZoneIds == WorldZones \cup {"Mars/Olympus_Mons"}

\* tz_str.parse::<Tz>()
ParseTz(tz_str) == IF tz_str \in WorldZones THEN Some(tz_str) ELSE None

\* Clock readings of the topography clock: the days of the transitions of
\* the database, at several times of day, and the days around them.
DayAround == {-86400, -7200, -1, 0, 1800, 36000, 86400}

DayInstants ==
    {t + d : t \in UNION {ZoneTransitions(tz) : tz \in WorldZones},
             d \in DayAround}

DaySteps == {1, 3600}

\* model() of 03_temporal_topography; the ledger belongs to the other clock.
InitDay ==
    /\ selected_zone \in WorldZones
    /\ now \in DayInstants
    /\ time_data = ComputeTimeDataAt(selected_zone, now)
    /\ day_domain = DayDomainCompute(now, selected_zone)
    /\ ledger = LedgerNew
    /\ tz_error = FALSE
    /\ last_valid_zone = selected_zone
    /\ toasts = <<>>
    /\ monotone = TRUE
    /\ fed = FALSE
    /\ ret = FALSE
    /\ prev_os = OverlapStateDefault
    /\ steady = TRUE
    /\ ticks = 0
    /\ switches = 0
    /\ range_changes = 0

\* update() of 03_temporal_topography in live mode.
UpdateDay(d) ==
    /\ now' = now + d
    /\ time_data' = ComputeTimeDataAt(selected_zone, now')
    /\ day_domain' = DayDomainCompute(now', selected_zone)
    /\ ticks' = ticks + 1
    /\ UNCHANGED <<ledger, selected_zone, tz_error, last_valid_zone, toasts,
                   monotone, fed, ret, prev_os, steady, switches,
                   range_changes>>

\* update() of 03_temporal_topography: the picker returned a zone.
PickZone(tz) ==
    /\ selected_zone' = tz
    /\ time_data' = ComputeTimeDataAt(tz, now)
    /\ day_domain' = DayDomainCompute(now, tz)
    /\ switches' = switches + 1
    /\ UNCHANGED <<ledger, tz_error, last_valid_zone, toasts, now, monotone,
                   fed, ret, prev_os, steady, ticks, range_changes>>

\* update(): compute_time_data(selected_zone), then ledger.update.
Tick(d) ==
    /\ now' = now + d
    /\ time_data' = ComputeTimeDataAt(selected_zone, now')
    /\ LET r == Update(ledger, time_data', selected_zone)
       IN /\ ledger' = r.state
          /\ ret' = r.ret
    /\ prev_os' = ledger.overlap_state
    /\ fed' = TRUE
    /\ steady' = (steady /\ (~fed \/ d \in {0, 1}))
    /\ monotone' = (monotone /\ (~fed \/ d >= 0))
    /\ ticks' = ticks + 1
    /\ UNCHANGED <<selected_zone, tz_error, last_valid_zone, toasts,
                   day_domain, switches, range_changes>>

\* Model::set_timezone; choosing the zone already selected changes nothing.
SetTimezone(tz) ==
    /\ tz # selected_zone
    /\ selected_zone' = tz
    /\ time_data' = ComputeTimeDataAt(tz, now)
    /\ IF time_data'.validity = "Ok"
       THEN /\ last_valid_zone' = tz
            /\ tz_error' = FALSE
            /\ toasts' = toasts
       ELSE /\ tz_error' = TRUE
            /\ toasts' = Append(toasts, StaleToast)
            /\ last_valid_zone' = last_valid_zone
    /\ ledger' = RecalculateForTz(ledger, tz)
    /\ steady' = FALSE
    /\ switches' = switches + 1
    /\ UNCHANGED <<day_domain, now, monotone, fed, ret, prev_os, ticks,
                   range_changes>>

\* Model::try_set_timezone
TrySetTimezone(tz_str) ==
    LET parsed == ParseTz(tz_str)
    IN IF IsSome(parsed)
       THEN SetTimezone(Unwrap(parsed))
       ELSE /\ toasts' = Append(toasts, InvalidToast(tz_str))
            /\ selected_zone' = last_valid_zone
            /\ time_data' = ComputeTimeDataAt(last_valid_zone, now)
            /\ UNCHANGED <<ledger, tz_error, last_valid_zone, day_domain, now,
                           monotone, fed, ret, prev_os, steady, ticks,
                           switches, range_changes>>

\* Model::set_time_range; choosing the current range changes nothing.
SetTimeRange(range) ==
    /\ range # ledger.time_range
    /\ ledger' = SetTimeRangeOf(ledger, range)
    /\ range_changes' = range_changes + 1
    /\ UNCHANGED <<selected_zone, time_data, tz_error, last_valid_zone, toasts,
                   day_domain, now, monotone, fed, ret, prev_os, steady,
                   ticks, switches>>

Next ==
    \/ ticks < MaxTicks /\ \E d \in Steps : Tick(d)
    \/ switches < MaxSwitches /\ \E tz \in Zones : SetTimezone(tz)

NextLong ==
    \/ ticks < MaxLongTicks /\ \E d \in SteadySteps : Tick(d)
    \/ switches < MaxLongSwitches /\ \E tz \in Zones : SetTimezone(tz)
    \/ range_changes < MaxRangeChanges
          /\ \E range \in TimeRangeFilter : SetTimeRange(range)

NextBack ==
    \/ ticks < MaxBackTicks /\ \E d \in BackSteps : Tick(d)
    \/ switches < MaxBackSwitches /\ \E tz \in Zones : SetTimezone(tz)
    \/ range_changes < MaxRangeChanges
          /\ \E range \in TimeRangeFilter : SetTimeRange(range)

NextWorld ==
    \/ ticks < MaxWorldTicks /\ \E d \in SteadySteps : Tick(d)
    \/ switches < MaxWorldSwitches /\ Len(toasts) < MaxToasts
          /\ \E tz_str \in ZoneIds : TrySetTimezone(tz_str)

\* A session that only ever uses zones without any transition.
NextConst ==
    \/ ticks < MaxConstTicks /\ \E d \in ConstSteps : Tick(d)
    \/ switches < MaxConstSwitches /\ \E tz \in ConstZones : SetTimezone(tz)

\* A session that keeps running: every frame calls update, here with a
\* clock reading an hour and a second after the previous one, up to some
\* days after the fall-back; the zone is switched before the fall-back only.
LiveTick == \E d \in LiveSteps : now + d <= LiveHorizon /\ Tick(d)

NextLive ==
    \/ LiveTick
    \/ now < TFall /\ switches < MaxLiveSwitches
          /\ \E tz \in Zones : SetTimezone(tz)

NextDay ==
    \/ ticks < MaxDayTicks /\ \E d \in DaySteps : UpdateDay(d)
    \/ switches < MaxDayPicks /\ \E tz \in WorldZones : PickZone(tz)

Spec == Init /\ [][Next]_vars

SpecDay == InitDay /\ [][NextDay]_vars

SpecWorld == InitWorld /\ [][NextWorld]_vars

SpecBack == Init /\ [][NextBack]_vars

\* update runs on every frame: a tick that stays possible is taken.
SpecLive == InitLive /\ [][NextLive]_vars /\ WF_vars(LiveTick)

SpecConst == InitConst /\ [][NextConst]_vars

SpecLong == InitLong /\ [][NextLong]_vars

\* ------------------------------------------------------------- properties
Entries == ledger.entries

IsTick == ticks' = ticks + 1

\* The snapshot handed to update on the step being taken.
TickData == ComputeTimeDataAt(selected_zone, now')

Idle(os) == ~os.in_overlap
FirstPass(os) == os.in_overlap /\ os.is_first_pass
SecondPass(os) == os.in_overlap /\ ~os.is_first_pass

IsGap(e) == e.dst_badge.kind = "GapMarker"

Min2(a, b) == IF a <= b THEN a ELSE b

\* C1: after every operation the buffer holds at most max_entries() entries,
\* max_entries() being the current time range in seconds.
C1_EntriesWithinCap ==
    /\ ledger.time_range \in TimeRangeFilter
    /\ Len(Entries) <= AsSeconds(ledger.time_range)
    /\ AsSeconds(ledger.time_range) \in {300, 600, 1800, 3600}

\* C1 witness: a tick has just inserted a GapMarker and a normal entry into
\* a buffer that was already full, and the buffer is exactly at its cap.
C1_Witness ==
    /\ ticks > 0 /\ ret
    /\ Len(Entries) = AsSeconds(ledger.time_range)
    /\ ~IsGap(Entries[1]) /\ Entries[1].instant_utc = now
    /\ IsGap(Entries[2]) /\ Entries[2].instant_utc = now

NY == "America/New_York"

HasBadge(e, kind) == e.dst_badge.kind = kind

\* C3: in a fall-back session fed second by second, once the repeat tick
\* has been taken every stored entry from the start of the fall-back hour up
\* to the onset is OverlapPass1 and every entry from the onset on is
\* OverlapPass2.
C3_FallBackPasses ==
    (/\ steady /\ fed /\ selected_zone = NY /\ now >= TFall
     /\ \E i \in 1..Len(Entries) : Entries[i].instant_utc < TFall)
    => \A i \in 1..Len(Entries) :
          /\ (Entries[i].instant_utc >= TFall - 3600
              /\ Entries[i].instant_utc < TFall)
                => HasBadge(Entries[i], "OverlapPass1")
          /\ Entries[i].instant_utc >= TFall
                => HasBadge(Entries[i], "OverlapPass2")

\* C3 witness: a per-second session has passed the onset and stores entries
\* of both passes, several minutes of the first one.
C3_Witness ==
    /\ steady /\ fed /\ selected_zone = NY /\ now > TFall
    /\ \E i \in 1..Len(Entries) : Entries[i].instant_utc = TFall - 300
    /\ \E i \in 1..Len(Entries) : Entries[i].instant_utc = now

\* The entries of the pre-state that survive the tick being taken, as they
\* are stored after it: k entries were inserted in front of them.
\* (The front entry of a buffer is never a marker, so a marker in second
\* place was inserted by this tick.)
Inserted == IF Len(ledger'.entries) >= 2 /\ IsGap(ledger'.entries[2])
            THEN 2 ELSE 1

\* C4: a tick that observes a lower offset than the previous accepted tick
\* while the overlap state (as the offset test finds it) is not in overlap
\* relabels exactly the stored entries of the tick's local hour at the
\* previous offset to OverlapPass1, leaves GapMarkers and entries that are
\* already OverlapPass1 untouched, changes no other entry, and relabeling
\* again changes nothing.
C4_RelabelPass1 ==
    [][(/\ IsTick /\ ret'
        /\ IsSome(ledger.last_offset)
        /\ TickData.utc_offset_minutes < Unwrap(ledger.last_offset)
        /\ ~ClassifyOverlap(ledger.overlap_state, TickData,
                            ledger.last_offset).in_overlap)
       => LET old == ledger.entries
              new == ledger'.entries
              k == Inserted
              hour == TickData.hour24
              prev == Unwrap(ledger.last_offset)
              kept == SubSeq(new, k + 1, Len(new))
          IN /\ Len(new) = Min2(Len(old) + k, AsSeconds(ledger.time_range))
             /\ \A i \in 1..Len(kept) :
                   LET match == /\ old[i].chapter_id = hour
                                /\ old[i].utc_offset_minutes = prev
                   IN /\ (match /\ ~IsGap(old[i]))
                         => kept[i] = [old[i] EXCEPT
                                         !.dst_badge = Badge("OverlapPass1")]
                      /\ (IsGap(old[i]) \/ HasBadge(old[i], "OverlapPass1"))
                         => kept[i] = old[i]
                      /\ ~match => kept[i] = old[i]
             /\ MarkOverlapPass1(kept, hour, prev) = kept]_vars

\* C4 witness: the repeat tick of the fall-back has just relabeled the
\* stored entries of the repeated hour.
C4_Witness ==
    /\ fed /\ ret /\ now = TFall /\ selected_zone = NY
    /\ Idle(prev_os) /\ SecondPass(ledger.overlap_state)
    /\ Len(Entries) >= 3
    /\ HasBadge(Entries[1], "OverlapPass2")
    /\ \A i \in 2..Len(Entries) : HasBadge(Entries[i], "OverlapPass1")

GapCount == Cardinality({i \in 1..Len(Entries) : IsGap(Entries[i])})

\* C5: a session fed second by second across and after the 02:00
\* spring-forward holds exactly one GapMarker and no normal entry whose local
\* time is in [02:00, 03:00).
C5_OneGapMarker ==
    (/\ steady /\ fed /\ selected_zone = NY /\ now >= TSpring
     /\ \E i \in 1..Len(Entries) : Entries[i].instant_utc < TSpring)
    => /\ GapCount = 1
       /\ \A i \in 1..Len(Entries) :
             ~IsGap(Entries[i]) => Entries[i].chapter_id # 2

\* A minute-boundary tick classified JustOccurred with a positive delta.
IsGapTick ==
    /\ IsTick /\ ret'
    /\ IsSome(ledger.last_minute)
    /\ TickData.minute # Unwrap(ledger.last_minute)
    /\ TickData.dst_change.kind = "JustOccurred"
    /\ TickData.dst_change.delta_minutes > 0

\* C6 as stated: on such a tick exactly one entry is added, the GapMarker,
\* in place of the tick's normal entry.
C6_GapMarkerInsteadOfEntry ==
    [][IsGapTick =>
          /\ Len(ledger'.entries)
               = Min2(Len(ledger.entries) + 1, AsSeconds(ledger.time_range))
          /\ IsGap(ledger'.entries[1])]_vars

\* C6 amended: on such a tick two entries are added: the tick's normal entry
\* at the front and, right behind it, one GapMarker{from, to} that records
\* the hour before the tick's local hour and the tick's local hour.
C6_GapMarkerBehindEntry ==
    [][IsGapTick =>
          LET new == ledger'.entries
              h == TickData.hour24
          IN /\ Len(new)
                  = Min2(Len(ledger.entries) + 2, AsSeconds(ledger.time_range))
             /\ ~IsGap(new[1])
             /\ new[1].instant_utc = now'
             /\ new[1].chapter_id = h
             /\ new[2].dst_badge =
                   [kind |-> "GapMarker",
                    from |-> FormatHourMark(IF h > 0 THEN h - 1 ELSE 23),
                    to |-> FormatHourMark(h)]
             /\ new[2].instant_utc = now'
             /\ \A i \in 3..Len(new) :
                   new[i].instant_utc = ledger.entries[i - 2].instant_utc]_vars

\* C6 witness: the tick at the spring-forward instant has stored its normal
\* entry with the 02:00 -> 03:00 marker behind it.
C6_Witness ==
    /\ fed /\ ret /\ now = TSpring /\ selected_zone = NY
    /\ Len(Entries) >= 3
    /\ ~IsGap(Entries[1]) /\ Entries[1].instant_utc = now
    /\ IsGap(Entries[2]) /\ Entries[2].instant_utc = now
    /\ Entries[2].dst_badge.from = "02:00"
    /\ Entries[2].dst_badge.to = "03:00"

\* C7: in SecondPass, the first accepted tick whose local hour differs from
\* overlap_hour puts the overlap state back to Idle, and its entry is not
\* badged OverlapPass2.
C7_SecondPassEnds ==
    [][(/\ IsTick /\ ret'
        /\ SecondPass(ledger.overlap_state)
        /\ TickData.hour24 # Unwrap(ledger.overlap_state.overlap_hour))
       => /\ ledger'.overlap_state = OverlapStateDefault
          /\ ~HasBadge(ledger'.entries[1], "OverlapPass2")]_vars

UpcomingFallBack(td) ==
    td.dst_change.kind = "Upcoming" /\ td.dst_change.delta_minutes < 0

JustFellBack(td) ==
    td.dst_change.kind = "JustOccurred" /\ td.dst_change.delta_minutes < 0

OffsetChanged(td) ==
    IsSome(ledger.last_offset)
    /\ td.utc_offset_minutes # Unwrap(ledger.last_offset)

OffsetDecreased(td) ==
    IsSome(ledger.last_offset)
    /\ td.utc_offset_minutes < Unwrap(ledger.last_offset)

KeepsOverlapHour ==
    /\ ledger'.overlap_state.overlap_hour = ledger.overlap_state.overlap_hour
    /\ ledger'.overlap_state.pre_fallback_offset
          = ledger.overlap_state.pre_fallback_offset

\* Idle -> FirstPass(hour, pre_offset) exactly on an accepted tick classified
\* Upcoming with negative delta whose offset differs from the previous one.
IdleToFirstPass ==
    (IsTick /\ ret' /\ Idle(ledger.overlap_state))
    => (FirstPass(ledger'.overlap_state)
        <=> (UpcomingFallBack(TickData) /\ OffsetChanged(TickData)))

EntersFirstPassWith ==
    (IsTick /\ ret' /\ Idle(ledger.overlap_state)
     /\ FirstPass(ledger'.overlap_state))
    => /\ ledger'.overlap_state.overlap_hour = Some(TickData.hour24)
       /\ ledger'.overlap_state.pre_fallback_offset = ledger.last_offset

IsSwitch == switches' = switches + 1

\* C9: recalculate_for_tz keeps the number, order and instants of the
\* entries, recomputes each entry's display fields against the new zone,
\* sets the badge of entries that are not GapMarker/OverlapPass1/OverlapPass2
\* to Active or None by the new zone's DST status, and keeps those three
\* badges as they are.
C9_RecalculateForTz ==
    [][IsSwitch =>
          LET old == ledger.entries
              new == ledger'.entries
          IN /\ Len(new) = Len(old)
             /\ \A i \in 1..Len(old) :
                   LET td == ComputeTimeDataAt(selected_zone', old[i].instant_utc)
                   IN /\ new[i].instant_utc = old[i].instant_utc
                      /\ new[i].local_timestamp = FormatLocalTimestamp(td)
                      /\ new[i].block_id = td.minute
                      /\ new[i].chapter_id = td.hour24
                      /\ new[i].offset_str = FormatUtcOffset(td)
                      /\ new[i].utc_offset_minutes
                            = Offset(selected_zone', old[i].instant_utc)
                      /\ IF old[i].dst_badge.kind
                              \in {"GapMarker", "OverlapPass1", "OverlapPass2"}
                         THEN new[i].dst_badge = old[i].dst_badge
                         ELSE new[i].dst_badge.kind
                                 = IF td.is_dst THEN "Active" ELSE "None"]_vars

\* C9 witness: after a switch from America/New_York to UTC the buffer holds
\* a GapMarker and entries that went from Active to None, all shown at +00:00.
C9_Witness ==
    /\ switches > 0 /\ selected_zone = "UTC"
    /\ \E i \in 1..Len(Entries) : IsGap(Entries[i])
    /\ \E i \in 1..Len(Entries) :
          /\ Entries[i].instant_utc >= TSpring
          /\ HasBadge(Entries[i], "None")
    /\ \A i \in 1..Len(Entries) :
          Entries[i].offset_str = "UTC+00:00"

\* C10: every tick whose instant differs from the previous accepted tick's
\* adds an entry, a tick 60 seconds later included.
C10_SkipsOnlySameSecond ==
    [][(/\ IsTick /\ Len(ledger.entries) > 0
        /\ now' # ledger.entries[1].instant_utc)
       => /\ ret' = TRUE
          /\ ledger'.entries[1].instant_utc = now']_vars

NewestFirst(entries) ==
    \A i \in 1..(Len(entries) - 1) :
        entries[i].instant_utc >= entries[i + 1].instant_utc

\* C11: while the instants fed to update are non-decreasing the entries are
\* newest-first after every update, set_time_range and recalculate_for_tz;
\* an update call with an earlier instant than the call before it is either
\* dropped, leaving the ledger as it was, or stored at the front with a newer
\* entry behind it.
C11_NewestFirst ==
    [][/\ monotone' => NewestFirst(ledger'.entries)
       /\ (IsTick /\ fed /\ now' < now)
          => \/ ret' = FALSE /\ ledger' = ledger
             \/ /\ ret'
                /\ ledger'.entries[1].instant_utc = now'
                /\ \E i \in 2..Len(ledger'.entries) :
                      ledger'.entries[i].instant_utc > now']_vars

\* ------------------------------------------------ properties of the engine
\* The offsets detect_dst_status compares for the snapshot in time_data.
CurOffset == Offset(selected_zone, now)
FutureOffset == Offset(selected_zone, now + 24 * 3600)
PastOffset == Offset(selected_zone, now - 24 * 3600)

Change == time_data.dst_change

\* C12: the snapshot's dst_change is Upcoming iff the offset 24 h ahead
\* differs from the current one (whatever the offset 24 h back is), with
\* delta = offset(+24h) - offset(now) and the transition inside
\* [now, now + 24h]; otherwise JustOccurred iff the offset 24 h back differs,
\* with delta = offset(now) - offset(-24h) and the transition inside
\* [now - 24h, now]; otherwise None.
C12_DstChangeWindows ==
    /\ time_data.instant_utc = now
    /\ Change.kind \in {"Upcoming", "JustOccurred", "None"}
    /\ Change.kind = "Upcoming" <=> FutureOffset # CurOffset
    /\ Change.kind = "Upcoming"
          => /\ Change.delta_minutes = FutureOffset - CurOffset
             /\ now * Sub <= Change.instant
             /\ Change.instant <= (now + 24 * 3600) * Sub
    /\ Change.kind = "JustOccurred"
          <=> (FutureOffset = CurOffset /\ PastOffset # CurOffset)
    /\ Change.kind = "JustOccurred"
          => /\ Change.delta_minutes = CurOffset - PastOffset
             /\ (now - 24 * 3600) * Sub <= Change.instant
             /\ Change.instant <= now * Sub
    /\ Change.kind = "None" => Change = DstNone

\* C12 witness: a snapshot taken in Australia/Lord_Howe within 24 h after
\* its clocks went forward by half an hour.
C12_Witness ==
    /\ fed /\ ticks > 0
    /\ selected_zone = "Australia/Lord_Howe"
    /\ Change.kind = "JustOccurred"
    /\ Change.delta_minutes = 30
    /\ PastOffset = 630 /\ CurOffset = 660

Nov2At9 == 306 * 86400 + 9 * 3600
Nov3At9 == 307 * 86400 + 9 * 3600

\* C13: in America/New_York the snapshot of 2024-11-02T09:00:00Z carries
\* Upcoming{2024-11-03T06:00:00Z, -60} and the snapshot of
\* 2024-11-03T09:00:00Z carries JustOccurred{2024-11-03T06:00:00Z, -60}.
C13_FallBackExample ==
    /\ (selected_zone = NY /\ now = Nov2At9)
          => Change = [kind |-> "Upcoming", instant |-> TFall * Sub,
                       delta_minutes |-> -60]
    /\ (selected_zone = NY /\ now = Nov3At9)
          => Change = [kind |-> "JustOccurred", instant |-> TFall * Sub,
                       delta_minutes |-> -60]

\* C13 witness: the second of the two snapshots has been taken.
C13_Witness ==
    /\ fed /\ ticks > 0
    /\ selected_zone = NY /\ now = Nov3At9
    /\ time_data.instant_utc = Nov3At9
    /\ Change.kind = "JustOccurred"
    /\ time_data.utc_offset_minutes = -300

\* The call of find_transition_time behind the snapshot's dst_change.
SearchWindow ==
    IF Change.kind = "Upcoming"
    THEN FindTransitionLoop(selected_zone, now * Sub, (now + 24 * 3600) * Sub,
                            CurOffset)
    ELSE FindTransitionLoop(selected_zone, (now - 24 * 3600) * Sub, now * Sub,
                            PastOffset)

OffsetAtSub(t) == Offset(selected_zone, t \div Sub)

\* C14 as stated: the located instant t has offset(t - 1s) # offset(t), and
\* the window is at most 60 s wide at termination.
C14_TransitionToTheSecond ==
    Change.kind # "None"
    => /\ OffsetAtSub(Change.instant - Sub) # OffsetAtSub(Change.instant)
       /\ SearchWindow.high - SearchWindow.low <= 60 * Sub

\* C14 amended: the located instant t carries the new offset, the search
\* ends with a window (low, t] that is at most 60 s wide and whose lower end
\* carries the start offset, and the transition lies in that window: t is the
\* transition or less than 60 s after it.
C14_TransitionWithinMinute ==
    Change.kind # "None"
    => /\ SearchWindow.high = Change.instant
       /\ SearchWindow.high - SearchWindow.low <= 60 * Sub
       /\ SearchWindow.low < SearchWindow.high
       /\ OffsetAtSub(SearchWindow.low) # OffsetAtSub(Change.instant)
       /\ \E at \in ZoneTransitions(selected_zone) :
             /\ SearchWindow.low < at * Sub /\ at * Sub <= Change.instant
             /\ Change.instant - 60 * Sub < at * Sub

\* C14 witness: a transition located some seconds late, the offset one second
\* before the located instant being the new one already.
C14_Witness ==
    /\ fed /\ ticks > 0
    /\ Change.kind = "Upcoming"
    /\ SearchWindow.high = Change.instant
    /\ OffsetAtSub(Change.instant - Sub) = OffsetAtSub(Change.instant)
    /\ OffsetAtSub(SearchWindow.low) # OffsetAtSub(Change.instant)

JanOffset == Offset(selected_zone, Unwrap(LocalSingle(selected_zone, JanRefLocal)))
JulOffset == Offset(selected_zone, Unwrap(LocalSingle(selected_zone, JulRefLocal)))

\* C16: is_dst is false when the offsets at local January 15 12:00 and July
\* 15 12:00 are equal, and otherwise true iff the offset at the instant is
\* the larger of the two.
C16_DstByReferenceOffsets ==
    /\ IsSome(LocalSingle(selected_zone, JanRefLocal))
    /\ IsSome(LocalSingle(selected_zone, JulRefLocal))
    /\ JanOffset = JulOffset => time_data.is_dst = FALSE
    /\ JanOffset # JulOffset
          => (time_data.is_dst
                <=> (\/ (JanOffset > JulOffset /\ CurOffset = JanOffset)
                     \/ (JulOffset > JanOffset /\ CurOffset = JulOffset)))

\* C16 witness: a January snapshot of Australia/Sydney, where the larger
\* offset is the January one.
C16_Witness ==
    /\ fed /\ ticks > 0
    /\ selected_zone = "Australia/Sydney"
    /\ now < 31 * 86400
    /\ time_data.is_dst
    /\ time_data.utc_offset_minutes = 660

LocalSecondOfDay == (now + 60 * CurOffset) % 86400

\* C17: every snapshot has hour12 in 1..12 (12 for hour24 = 0, hour24 for
\* 1..12, hour24 - 12 for 13..23), minute and second in 0..59 and meridiem AM
\* iff hour24 < 12, hour24:minute:second being the local time of day; the
\* snapshot of 2024-01-01T20:30:00Z in UTC has hour24 = 20, hour12 = 8, PM,
\* minute = 30, offset 0 and is_dst = false.
C17_SnapshotFields ==
    /\ time_data.hour24 \in 0..23
    /\ time_data.hour12 \in 1..12
    /\ time_data.hour24 = 0 => time_data.hour12 = 12
    /\ time_data.hour24 \in 1..12 => time_data.hour12 = time_data.hour24
    /\ time_data.hour24 \in 13..23 => time_data.hour12 = time_data.hour24 - 12
    /\ time_data.minute \in 0..59
    /\ time_data.second \in 0..59
    /\ time_data.meridiem = "AM" <=> time_data.hour24 < 12
    /\ time_data.meridiem \in {"AM", "PM"}
    /\ time_data.hour24 * 3600 + time_data.minute * 60 + time_data.second
          = LocalSecondOfDay
    /\ (selected_zone = "UTC" /\ now = 20 * 3600 + 30 * 60)
          => /\ time_data.hour24 = 20 /\ time_data.hour12 = 8
             /\ time_data.meridiem = "PM" /\ time_data.minute = 30
             /\ time_data.utc_offset_minutes = 0 /\ time_data.is_dst = FALSE

\* C17 witness: the snapshot of 2024-01-01T20:30:00Z in UTC.
C17_Witness ==
    /\ fed /\ ticks > 0
    /\ selected_zone = "UTC" /\ now = 20 * 3600 + 30 * 60
    /\ time_data.instant_utc = now
    /\ time_data.hour12 = 8 /\ time_data.meridiem = "PM"

\* C18: a zone lookup that fails (try_set_timezone reports the id as invalid
\* and falls back) leaves a snapshot whose validity is not Ok.
C18_DegradedLookupNotOk ==
    [][(/\ Len(toasts') = Len(toasts) + 1
        /\ toasts'[Len(toasts')] # StaleToast)
       => time_data'.validity # "Ok"]_vars

\* --------------------------------------------- properties of the day domain
Faults == day_domain.dst_faults

\* The hourly samples of detect_dst_faults: sample k is taken k hours after
\* local midnight, and the pair (k, k + 1) is looked at when sample k + 1 is
\* not past the next midnight.
SampleOffset(k) == Offset(selected_zone, day_domain.midnight_utc + k * 3600)

SamplePairs ==
    {k \in 0..25 : (k + 1) * 3600 <= day_domain.day_length_seconds}

DifferingPairs == {k \in SamplePairs : SampleOffset(k) # SampleOffset(k + 1)}

\* The day has a spring-forward of one hour at 02:00 local: two hours after
\* local midnight the offset goes up by 60 minutes.
SpringForwardAtTwo ==
    /\ day_domain.midnight_utc + 7200 \in ZoneTransitions(selected_zone)
    /\ Offset(selected_zone, day_domain.midnight_utc + 7200)
          = Offset(selected_zone, day_domain.midnight_utc + 7199) + 60

\* C19: on a day with a spring-forward at 02:00 local (delta +60) is_in_gap
\* is true at the position 9000 / day_length (02:30 local).
C19_GapAtHalfPastTwo ==
    SpringForwardAtTwo
    => IsInGap(day_domain, Frac(9000, day_domain.day_length_seconds))

LocalDate == (now + 60 * Offset(selected_zone, now)) \div 86400

MidnightOf(date) == LocalSingle(selected_zone, date * 86400)

UniqueMidnights == IsSome(MidnightOf(LocalDate)) /\ IsSome(MidnightOf(LocalDate + 1))

\* C21 as stated: for every instant and zone DayDomain::compute yields
\* day_length_seconds in {82800, 86400, 90000}.
C21_DayLengthThreeValues ==
    day_domain.day_length_seconds \in {82800, 86400, 90000}

\* C21 amended: when 00:00 of the local day and 00:00 of the next day are
\* both unique wall-clock readings, day_length_seconds is 86400 minus the
\* change of the offset between the two midnights, in seconds.
C21_DayLengthByOffsetChange ==
    UniqueMidnights
    => day_domain.day_length_seconds
          = 86400 - 60 * (Offset(selected_zone, Unwrap(MidnightOf(LocalDate + 1)))
                            - Offset(selected_zone, Unwrap(MidnightOf(LocalDate))))

\* C21 witness: an update has computed the day domain of 2024-10-06 in
\* Australia/Lord_Howe, the day of 23.5 h on which the clocks go forward by
\* half an hour.
C21_Witness ==
    /\ ticks > 0
    /\ selected_zone = "Australia/Lord_Howe"
    /\ UniqueMidnights
    /\ day_domain.day_length_seconds = 86400 - 1800

\* The offset changes during the local day of the clock reading: the last
\* second before some transition and the transition itself both read a time
\* of that day.
LocalDateOf(t) == (t + 60 * Offset(selected_zone, t)) \div 86400

ChangeInDay ==
    \E T \in ZoneTransitions(selected_zone) :
        LocalDateOf(T - 1) = LocalDate /\ LocalDateOf(T) = LocalDate

\* C22: for a zone whose offset does not change during the local day that
\* contains the instant, DayDomain::compute yields day_length_seconds =
\* 86400 and an empty dst_faults list.
C22_NormalDay ==
    ~ChangeInDay
    => day_domain.day_length_seconds = 86400 /\ Faults = <<>>

\* The windows of the call of find_transition_time behind the snapshot's
\* dst_change, and the offset that call was given.
SearchStartOffset == IF Change.kind = "Upcoming" THEN CurOffset ELSE PastOffset

SearchWindows ==
    IF Change.kind = "Upcoming"
    THEN FindTransitionWindows(selected_zone, now * Sub, (now + 24 * 3600) * Sub,
                               CurOffset)
    ELSE FindTransitionWindows(selected_zone, (now - 24 * 3600) * Sub, now * Sub,
                               PastOffset)

\* Widths in seconds of further windows [now, now + w], with and without a
\* transition inside.
ProbeWidths == {0, 1, 59, 60, 61, 121, 3600, 86399, 86400}

ProbeWindows(w) ==
    FindTransitionWindows(selected_zone, now * Sub, (now + w) * Sub, CurOffset)

\* C23: find_transition_time terminates for every low <= high (with a window
\* of at most 60 s); in the call made by detect_dst_status, where offset(low)
\* = low_offset # offset(high) and one transition T lies in (low, high],
\* every iteration keeps offset(low) = low_offset and offset(high) #
\* low_offset, the result r satisfies T <= r < T + 60 s, and the 24-hour
\* window is halved exactly 11 times.
C23_SearchInvariant ==
    /\ \A w \in ProbeWidths :
          LET ws == ProbeWindows(w)
          IN /\ ws[Len(ws)].high - ws[Len(ws)].low <= 60 * Sub
             /\ ws[Len(ws)].low <= ws[Len(ws)].high
             /\ Len(ws) <= 12
    /\ Change.kind # "None"
       => /\ Len(SearchWindows) = 11 + 1
          /\ \A i \in 1..Len(SearchWindows) :
                /\ OffsetAtSub(SearchWindows[i].low) = SearchStartOffset
                /\ OffsetAtSub(SearchWindows[i].high) # SearchStartOffset
          /\ SearchWindows[Len(SearchWindows)].high = Change.instant
          /\ \E T \in ZoneTransitions(selected_zone) :
                /\ SearchWindows[1].low < T * Sub
                /\ T * Sub <= Change.instant
                /\ Change.instant < (T + 60) * Sub

\* C23 witness: a tick's snapshot reports a transition that occurred within
\* the past 24 hours, located after 11 halvings some seconds late.
C23_Witness ==
    /\ fed /\ ticks > 0
    /\ Change.kind = "JustOccurred"
    /\ Len(SearchWindows) = 12
    /\ \E T \in ZoneTransitions(selected_zone) :
          T * Sub < Change.instant /\ Change.instant < (T + 60) * Sub

IsRangeChange == range_changes' = range_changes + 1

\* An entry without its badge (a tick may relabel stored entries).
Unbadged(e) == [e EXCEPT !.dst_badge = Badge("None")]

\* C24: the cap is enforced by evicting from the oldest end after insertion:
\* after an accepted update the buffer is the newest max_entries() entries of
\* the insertions followed by the previous content, in the same order, the
\* entry of the tick being at the front; after set_time_range it is the
\* newest max_entries() entries of the previous content.
C24_EvictOldestAfterInsert ==
    [][/\ (IsTick /\ ret')
          => LET old == ledger.entries
                 new == ledger'.entries
                 k == Inserted
             IN /\ Len(new) = Min2(Len(old) + k, AsSeconds(ledger'.time_range))
                /\ new[1].instant_utc = now' /\ ~IsGap(new[1])
                /\ \A i \in 1..(Len(new) - k) :
                      Unbadged(new[k + i]) = Unbadged(old[i])
       /\ IsRangeChange
          => LET old == ledger.entries
                 new == ledger'.entries
             IN new = SubSeq(old, 1, Min2(Len(old),
                                          AsSeconds(ledger'.time_range)))]_vars

\* C24 witness: the range is five minutes, the buffer is at its cap of 300
\* and its front entry is the one of the latest tick, while the session has
\* stored more than 300 seconds: older entries have been evicted.
C24_Witness ==
    /\ ticks > 0 /\ ret /\ range_changes > 0
    /\ ledger.time_range = "Minutes5"
    /\ Len(Entries) = 300
    /\ Entries[1].instant_utc = now /\ ~IsGap(Entries[1])
    /\ Entries[300].instant_utc > now - 300

\* The badge from_instant gives under an overlap state and a DST flag.
PassLabel(os, is_dst) ==
    IF os.in_overlap
    THEN IF os.is_first_pass THEN "OverlapPass1" ELSE "OverlapPass2"
    ELSE IF is_dst THEN "Active" ELSE "None"

\* C25: the normal entry built on an accepted tick is tagged by the overlap
\* state as that same tick leaves it: OverlapPass1 in the first pass,
\* OverlapPass2 in the second, otherwise Active or None by the snapshot's
\* is_dst; it never carries a GapMarker badge.
C25_EntryTaggedByOverlapState ==
    [][(IsTick /\ ret')
       => LET e == ledger'.entries[1]
          IN /\ e.instant_utc = now'
             /\ e.dst_badge
                   = Badge(PassLabel(ledger'.overlap_state, time_data'.is_dst))
             /\ ~IsGap(e)]_vars

\* C25 witness: the latest tick took the overlap state from Idle to the
\* first pass and its entry is tagged OverlapPass1.
C25_Witness ==
    /\ fed /\ ret /\ ticks > 0
    /\ Idle(prev_os) /\ FirstPass(ledger.overlap_state)
    /\ Entries[1].instant_utc = now
    /\ HasBadge(Entries[1], "OverlapPass1")

\* C26: when every zone handed to update has a constant offset, the overlap
\* state stays Idle and no entry is badged OverlapPass1 or OverlapPass2,
\* whatever the ticks (with instants that never decrease) and the zone
\* switches in between.
C26_ConstantZonesStayIdle ==
    /\ Idle(ledger.overlap_state)
    /\ \A i \in 1..Len(Entries) :
          ~HasBadge(Entries[i], "OverlapPass1")
          /\ ~HasBadge(Entries[i], "OverlapPass2")

\* C27: in every reachable ledger the overlap state is well formed:
\* in_overlap holds iff overlap_hour is Some iff pre_fallback_offset is Some,
\* and is_first_pass implies in_overlap.
C27_OverlapStateWellFormed ==
    LET os == ledger.overlap_state
    IN /\ os.in_overlap \in BOOLEAN /\ os.is_first_pass \in BOOLEAN
       /\ os.in_overlap <=> IsSome(os.overlap_hour)
       /\ os.in_overlap <=> IsSome(os.pre_fallback_offset)
       /\ os.is_first_pass => os.in_overlap

\* C27 witness: a tick has taken the overlap state from the first pass to
\* the second, and it still carries its hour and its pre-fallback offset.
C27_Witness ==
    /\ fed /\ ret /\ ticks > 0
    /\ FirstPass(prev_os) /\ SecondPass(ledger.overlap_state)
    /\ IsSome(ledger.overlap_state.overlap_hour)
    /\ IsSome(ledger.overlap_state.pre_fallback_offset)

\* C28: whenever the overlap state is in overlap (first or second pass) it
\* eventually returns to Idle while accepted ticks with advancing instants
\* keep arriving, also when the zone in use no longer reports a fall-back.
C28_OverlapEventuallyIdle ==
    ledger.overlap_state.in_overlap ~> Idle(ledger.overlap_state)

\* The transitions of the selected zone that lie at most 24 h ahead of the
\* clock reading, and those that lie at most 24 h back.
Ahead == {T \in ZoneTransitions(selected_zone) : T - 24 * 3600 <= now /\ now < T}

Behind == {T \in ZoneTransitions(selected_zone) : T <= now /\ now < T + 24 * 3600}

DeltaAt(T) == Offset(selected_zone, T) - Offset(selected_zone, T - 1)

\* C29: in a zone whose transitions are more than 48 h apart the
\* classification is Upcoming exactly at the instants of [T - 24h, T),
\* JustOccurred exactly at those of [T, T + 24h) and None elsewhere, with the
\* delta of the transition in both variants; followed from one clock reading
\* to the next (readings less than 24 h apart) it does not go from Upcoming
\* to None.
C29_ClassificationIntervals ==
    /\ [](/\ Change.kind = "Upcoming" <=> Ahead # {}
          /\ Change.kind = "JustOccurred" <=> Behind # {}
          /\ Change.kind = "None" <=> (Ahead = {} /\ Behind = {})
          /\ \A T \in Ahead \cup Behind : Change.delta_minutes = DeltaAt(T))
    /\ [][(IsTick /\ Change.kind = "Upcoming")
            => time_data'.dst_change.kind # "None"]_vars

\* C29 witness: a tick has read the clock at the very instant of a
\* transition, one second after a reading classified Upcoming, and the
\* classification is JustOccurred.
C29_Witness ==
    /\ fed /\ ticks > 0 /\ steady
    /\ now \in ZoneTransitions(selected_zone)
    /\ Change.kind = "JustOccurred"
    /\ Change.delta_minutes = DeltaAt(now)
    /\ Len(Entries) >= 1 /\ Entries[1].instant_utc = now

\* The sum of delta_minutes over a list of faults.
RECURSIVE SumDeltaMinutes(_)
SumDeltaMinutes(faults) ==
    IF faults = <<>> THEN 0
    ELSE faults[1].delta_minutes + SumDeltaMinutes(Tail(faults))

\* C30: on a day whose local midnight and next midnight are both unique
\* wall-clock readings and whose length is a whole number of hours,
\* day_length_seconds = 86400 - 60 * (sum of delta_minutes over dst_faults).
C30_FaultsAccountForDayLength ==
    (UniqueMidnights /\ day_domain.day_length_seconds % 3600 = 0)
    => day_domain.day_length_seconds = 86400 - 60 * SumDeltaMinutes(Faults)

\* C30 witness: an update has computed a day of 23 hours with unique
\* midnights, and its one fault carries the whole change of +60 minutes.
C30_Witness ==
    /\ ticks > 0
    /\ UniqueMidnights
    /\ day_domain.day_length_seconds = 23 * 3600
    /\ Len(Faults) = 1
    /\ Faults[1].delta_minutes = 60

====
